---- MODULE Spec2Model ----
(***************************************************************************)
(* Verification model of the SISO / ifem_to_vt conversion pipeline:        *)
(*   - the writer protocol (siso/writer/writer.py, siso/writer/vtk.py,     *)
(*     ifem_to_vt/writer/vtf.py),                                          *)
(*   - the reader's geometry and field emission loops                      *)
(*     (ifem_to_vt/reader.py),                                             *)
(*   - the structured element construction of Reader.write_geometry.       *)
(* Python's None is modelled by NoneVal, a missing attribute by Absent.    *)
(***************************************************************************)
EXTENDS Integers, Sequences, FiniteSets, TLC

\* ------------------------------------------------------------------ bounds
MaxSteps == 2
MaxDepth == 2
MaxPatches == 2
MaxResultBlocks == 1
MaxPids == 2
MaxLevel == 1
MaxSamples == 4
MaxLat == 3
MaxLon == 4
MaxVert == 2
MaxUpdateLevel == 3

\* ------------------------------------------------------- program constants
NoneVal == -1
Absent == -2
POINTVALUES == 0
CELLVALUES == 1

\* the concrete writers: a TesselatedWriter subclass, VTKWriter, VTFWriter
WriterClasses == {"TesselatedWriter", "VTKWriter", "VTFWriter"}
Patches == 1..MaxPatches
FieldNames == {"u"}

VARIABLES
    \* writer (siso/writer/writer.py, vtk.py, ifem_to_vt/writer/vtf.py)
    wclass, multiple_timesteps,
    stepid, step_finalized, geometry_finalized,
    patch_keys, topologies, fields, files,
    geometry_blocks, dirty_geometry, field_blocks,
    ctx, last,
    \* protocol history of the run
    begun, closed, geo_closed, geo_updated,
    \* reader (ifem_to_vt/reader.py)
    nodeof, node_patchid, node_last_written, discovered, emitted,
    rpc, sent, rlast, node_tesselation, tess_assigned, rtess, creator,
    \* element construction (Reader.write_geometry)
    tshape, tpc, tnodes, teidxs, tflat,
    \* periodic meshes and arrays (ifem_to_vt/reader/wrf.py)
    nlat, nlon, nvert, volumetric, ppc, pcells, pblocks, pdata,
    \* Reader.basis_level
    bl_updates, bl_level, bl_basis, bl_result,
    \* Reader.write
    wr_file, wr_lid, wr_todo, wr_stage, wr_written, wr_log,
    \* the grid VTKWriter.step has just written (VTKWriter.grid); it is local
    \* to that call and gone when the next call is made
    vtk_grid,
    \* WRFReader.write
    wrf_nsteps, wrf_dataset, wrf_volumetric, wrf_pc, wrf_todo, wrf_log

wvars == <<wclass, multiple_timesteps, stepid, step_finalized,
           geometry_finalized, patch_keys, topologies, fields, files,
           geometry_blocks, dirty_geometry, field_blocks, ctx, last,
           begun, closed, geo_closed, geo_updated>>

rvars == <<nodeof, node_patchid, node_last_written, discovered, emitted,
           rpc, sent, rlast, node_tesselation, tess_assigned, rtess,
           creator>>

tvars == <<tshape, tpc, tnodes, teidxs, tflat>>

pvars == <<nlat, nlon, nvert, volumetric, ppc, pcells, pblocks, pdata>>

lvars == <<bl_updates, bl_level, bl_basis, bl_result>>

dvars == <<wr_file, wr_lid, wr_todo, wr_stage, wr_written, wr_log>>

gvars == <<vtk_grid>>

kvars == <<wrf_nsteps, wrf_dataset, wrf_volumetric, wrf_pc, wrf_todo, wrf_log>>

\* the state of the parts modelled outside writer, reader and elements
xvars == <<pvars, lvars, dvars, gvars, kvars>>

vars == <<wvars, rvars, tvars, xvars>>

\* ------------------------------------------------------------ small helpers
SeqToSet(s) == {s[i] : i \in 1..Len(s)}

\* dict[key] = value on an insertion-ordered dict, keys only
DictPut(keys, k) == IF k \in SeqToSet(keys) THEN keys ELSE Append(keys, k)

Outcome(op, ok, ret, patch) == [op |-> op, ok |-> ok, ret |-> ret, patch |-> patch]

\* GeometryManager.update: a known patch keeps its ID, a new one gets the
\* next ID in first-discovery order
ManagerUpdate(keys, p) ==
    IF keys[p] # NoneVal THEN keys
    ELSE [keys EXCEPT ![p] = Cardinality({q \in DOMAIN keys : keys[q] # NoneVal})]

\* GeometryManager.global_id: the ID of a known patch (an error otherwise)
ManagerKnows(keys, p) == keys[p] # NoneVal

MakeFilenameFromZero == IF multiple_timesteps THEN stepid ELSE 0

\* Writer.make_filename(with_step=True): 0 stands for the configured path
MakeFilename == IF multiple_timesteps THEN stepid + 1 ELSE 0

\* ------------------------------------------ element numbering (numpy)
RECURSIVE ProductSeq(_)
\* itertools.product(*ranges) of the ranges range(r[1]), range(r[2]), ...:
\* the last index runs fastest
ProductSeq(r) ==
    IF r = << >> THEN << << >> >>
    ELSE LET rest == ProductSeq(Tail(r))
             m == Len(rest)
         IN  [k \in 1..(r[1] * m) |->
                <<(k - 1) \div m>> \o rest[((k - 1) % m) + 1]]

CellRangesAllNodes(shape) == [d \in 1..Len(shape) |-> shape[d]]

\* ranges = [range(k-1) for k in nodes.shape[:-1]]
CellRanges(shape) == [d \in 1..Len(shape) |-> shape[d] - 1]

RECURSIVE RavelFrom(_, _, _, _)
RavelFrom(idx, shape, d, acc) ==
    IF d > Len(shape) THEN acc
    ELSE RavelFrom(idx, shape, d + 1, acc * shape[d] + idx[d])

RECURSIVE RavelFromF(_, _, _, _)
RavelFromF(idx, shape, d, acc) ==
    IF d < 1 THEN acc
    ELSE RavelFromF(idx, shape, d - 1, acc * shape[d] + idx[d])

RavelMultiIndexF(idx, shape) == RavelFromF(idx, shape, Len(shape), 0)

\* np.ravel_multi_index(idx, shape), C order
RavelMultiIndex(idx, shape) == RavelFrom(idx, shape, 1, 0)

\* np.ndarray.flatten(nodes): the grid position of each flattened node
FlattenNodes(shape) == ProductSeq(shape)

Shift(idx, delta) == [d \in 1..Len(idx) |-> idx[d] + delta[d]]

\* the corner offsets of columns 0.. of eidxs, per parametric dimension
Corners(dim) ==
    CASE dim = 1 -> << <<0>>, <<1>> >>
      [] dim = 2 -> << <<0, 0>>, <<1, 0>>, <<1, 1>>, <<0, 1>> >>
      [] dim = 3 -> << <<0, 0, 0>>, <<1, 0, 0>>, <<1, 1, 0>>, <<0, 1, 0>>,
                       <<0, 0, 1>>, <<1, 0, 1>>, <<1, 1, 1>>, <<0, 1, 1>> >>

\* eidxs of Reader.write_geometry for nodes of the given shape
Elements(shape) ==
    LET nidxs == ProductSeq(CellRanges(shape))
        cs == Corners(Len(shape))
    IN  [e \in 1..Len(nidxs) |->
           [c \in 1..Len(cs) |-> RavelMultiIndex(Shift(nidxs[e], cs[c]), shape)]]

RECURSIVE FlattenRows(_)
\* np.ndarray.flatten of a two-dimensional array
FlattenRows(rows) ==
    IF rows = << >> THEN << >> ELSE Head(rows) \o FlattenRows(Tail(rows))

\* ------------------------------------------------------- the VTK grid
\* the topology and nodes a reader passes for patch p: a structured surface
\* of p cells, tesselated as in Reader.write_geometry
PatchShape(p) == <<p + 1, 2>>

\* p.num_nodes, the number of rows of the patch's node array
PatchNumNodes(p) == (p + 1) * 2

\* the node array of patch p: row r is tagged with its patch
PatchData(p) == [r \in 1..PatchNumNodes(p) |-> [patch |-> p, row |-> r - 1]]

RECURSIVE VStack(_)
\* np.vstack of a list of arrays
VStack(arrays) ==
    IF arrays = << >> THEN << >> ELSE Head(arrays) \o VStack(Tail(arrays))

RECURSIVE CumSum(_, _)
\* np.cumsum(counts)[k - 1], the sum of the first k counts
CumSum(counts, k) == IF k = 0 THEN 0 ELSE CumSum(counts, k - 1) + counts[k]

NodeOffsetInclusive(order, k) ==
    CumSum([i \in 1..Len(order) |-> PatchNumNodes(order[i])], k)

\* the k-th value of chain([0], np.cumsum([p.num_nodes ...]))
NodeOffset(order, k) ==
    CumSum([i \in 1..Len(order) |-> PatchNumNodes(order[i])], k - 1)

\* p.cells + off
ShiftCells(cells, off) ==
    [e \in 1..Len(cells) |-> [c \in 1..Len(cells[e]) |-> cells[e][c] + off]]

\* np.hstack([cells.shape[-1] * ones, cells]).ravel()
VTKCellArray(cells) ==
    VStack([e \in 1..Len(cells) |-> <<Len(cells[e])>> \o cells[e]])

NoGrid == [order |-> << >>, points |-> << >>, cells |-> << >>,
           arrays |-> [f \in FieldNames |-> << >>]]

\* VTKWriter.grid and the arrays VTKWriter.step adds to it: the points and
\* cells of all stored topologies and one array per stored field, each
\* stacked in the insertion order of its own dictionary
VTKGrid(topos, flds) ==
    [order |-> topos,
     points |-> VStack([k \in 1..Len(topos) |-> PatchData(topos[k])]),
     cells |-> VTKCellArray(VStack([k \in 1..Len(topos) |->
                   ShiftCells(Elements(PatchShape(topos[k])),
                              NodeOffset(topos, k))])),
     arrays |-> [f \in FieldNames |->
                   VStack([k \in 1..Len(flds[f]) |-> PatchData(flds[f][k])])]]

\* ----------------------------------------------------------------- writer
\* Writer.__init__ and Writer.__enter__ (with the subclasses' __init__)
WriterEntered ==
    /\ stepid = -1
    /\ step_finalized = TRUE
    /\ geometry_finalized = TRUE
    /\ patch_keys = [p \in Patches |-> NoneVal]
    /\ topologies = << >>
    /\ fields = [f \in FieldNames |-> << >>]
    /\ files = << >>
    /\ geometry_blocks = << >>
    /\ dirty_geometry = FALSE
    /\ field_blocks = << >>
    /\ ctx = << >>
    /\ last = Outcome("enter", TRUE, NoneVal, NoneVal)
    /\ begun = 0
    /\ closed = 0
    /\ geo_closed = FALSE
    /\ geo_updated = FALSE
    /\ vtk_grid = NoGrid

\* config.multiple_timesteps is read by VTKWriter.step only
WriterInit ==
    /\ wclass \in WriterClasses
    /\ multiple_timesteps \in (IF wclass = "VTKWriter" THEN BOOLEAN ELSE {TRUE})
    /\ WriterEntered

\* No exception has ended the run: nothing catches the AssertionError of the
\* writer or an error of the reader, so a failure is the run's last event
Running == last.ok /\ rlast.kind # "error"

\* An exception leaves every open context manager without running the code
\* after its yield
Raise(op, p) ==
    /\ ctx' = << >>
    /\ last' = Outcome(op, FALSE, NoneVal, p)

Push(c) == ctx' = Append(ctx, c)
Pop == ctx' = SubSeq(ctx, 1, Len(ctx) - 1)
Top == IF ctx = << >> THEN "none" ELSE ctx[Len(ctx)]

StepEnterUnchecked == TRUE

\* assert self.step_finalized
StepEnterAllowed == step_finalized

\* Writer.step, up to the yield
StepEnter ==
    /\ Running
    /\ Len(ctx) < MaxDepth
    /\ stepid + 1 < MaxSteps
    /\ IF StepEnterAllowed
       THEN /\ stepid' = stepid + 1
            /\ step_finalized' = FALSE
            /\ geometry_finalized' = FALSE
            /\ Push("step")
            /\ last' = Outcome("step_enter", TRUE, NoneVal, NoneVal)
            /\ begun' = begun + 1
            /\ geo_closed' = FALSE
            /\ geo_updated' = FALSE
       ELSE /\ Raise("step_enter", NoneVal)
            /\ UNCHANGED <<stepid, step_finalized, geometry_finalized, begun,
                           geo_closed, geo_updated>>
    /\ UNCHANGED <<wclass, multiple_timesteps, patch_keys, topologies, fields,
                   files, geometry_blocks, dirty_geometry, field_blocks, closed>>
    /\ vtk_grid' = NoGrid
    /\ UNCHANGED <<rvars, tvars, pvars, lvars, dvars, kvars>>

StepExitIgnoresGeometry == ~step_finalized

\* assert self.geometry_finalized; assert not self.step_finalized
StepExitAllowed == geometry_finalized /\ ~step_finalized

\* Writer.step after the yield; VTKWriter.step then builds the grid from the
\* stored topologies and writes the step's file
StepExit ==
    /\ Running
    /\ Top = "step"
    /\ IF StepExitAllowed
       THEN /\ step_finalized' = TRUE
            /\ closed' = closed + 1
            /\ IF wclass = "VTKWriter" /\ topologies = << >>
               THEN /\ Raise("step_exit", NoneVal)
                    /\ vtk_grid' = NoGrid
                    /\ UNCHANGED files
               ELSE /\ Pop
                    /\ last' = Outcome("step_exit", TRUE, NoneVal, NoneVal)
                    /\ files' = IF wclass = "VTKWriter"
                                THEN Append(files, MakeFilename)
                                ELSE files
                    /\ vtk_grid' = IF wclass = "VTKWriter"
                                   THEN VTKGrid(topologies, fields)
                                   ELSE NoGrid
       ELSE /\ Raise("step_exit", NoneVal)
            /\ vtk_grid' = NoGrid
            /\ UNCHANGED <<step_finalized, closed, files>>
    /\ UNCHANGED <<wclass, multiple_timesteps, stepid, geometry_finalized,
                   patch_keys, topologies, fields, geometry_blocks,
                   dirty_geometry, field_blocks, begun, geo_closed,
                   geo_updated>>
    /\ UNCHANGED <<rvars, tvars, pvars, lvars, dvars, kvars>>

\* Writer.geometry, up to the yield
GeometryEnter ==
    /\ Running
    /\ Len(ctx) < MaxDepth
    /\ geometry_finalized' = FALSE
    /\ Push("geometry")
    /\ last' = Outcome("geometry_enter", TRUE, NoneVal, NoneVal)
    /\ UNCHANGED <<wclass, multiple_timesteps, stepid, step_finalized,
                   patch_keys, topologies, fields, files, geometry_blocks,
                   dirty_geometry, field_blocks, begun, closed, geo_closed,
                   geo_updated>>
    /\ vtk_grid' = NoGrid
    /\ UNCHANGED <<rvars, tvars, pvars, lvars, dvars, kvars>>

\* Writer.geometry after the yield; VTFWriter.finalize_geometry clears the
\* dirty flag
GeometryExit ==
    /\ Running
    /\ Top = "geometry"
    /\ geometry_finalized' = TRUE
    /\ dirty_geometry' = FALSE
    /\ Pop
    /\ last' = Outcome("geometry_exit", TRUE, NoneVal, NoneVal)
    /\ geo_closed' = TRUE
    /\ UNCHANGED <<wclass, multiple_timesteps, stepid, step_finalized,
                   patch_keys, topologies, fields, files, geometry_blocks,
                   field_blocks, begun, closed, geo_updated>>
    /\ vtk_grid' = NoGrid
    /\ UNCHANGED <<rvars, tvars, pvars, lvars, dvars, kvars>>

\* Writer.field, up to the yield
FieldEnter ==
    /\ Running
    /\ Len(ctx) < MaxDepth
    /\ IF geometry_finalized
       THEN /\ Push("field")
            /\ last' = Outcome("field_enter", TRUE, NoneVal, NoneVal)
       ELSE Raise("field_enter", NoneVal)
    /\ UNCHANGED <<wclass, multiple_timesteps, stepid, step_finalized,
                   geometry_finalized, patch_keys, topologies, fields, files,
                   geometry_blocks, dirty_geometry, field_blocks, begun,
                   closed, geo_closed, geo_updated>>
    /\ vtk_grid' = NoGrid
    /\ UNCHANGED <<rvars, tvars, pvars, lvars, dvars, kvars>>

\* Writer.field after the yield: nothing
FieldExit ==
    /\ Running
    /\ Top = "field"
    /\ Pop
    /\ last' = Outcome("field_exit", TRUE, NoneVal, NoneVal)
    /\ UNCHANGED <<wclass, multiple_timesteps, stepid, step_finalized,
                   geometry_finalized, patch_keys, topologies, fields, files,
                   geometry_blocks, dirty_geometry, field_blocks, begun,
                   closed, geo_closed, geo_updated>>
    /\ vtk_grid' = NoGrid
    /\ UNCHANGED <<rvars, tvars, pvars, lvars, dvars, kvars>>

\* What update_geometry returns to its caller: Writer.update_geometry
\* returns the manager's ID (id) to the overriding method, and every
\* overriding method ends without a return statement
UpdateGeometryReturn(id) == NoneVal

\* The guard of the base class: assert not self.geometry_finalized
UpdateGeometryAllowed == ~geometry_finalized

\* VTFWriter.update_geometry: store the blocks of patch p under patchid
VTFStoreBlocks(blocks, patchid, p) ==
    IF Len(blocks) <= patchid
    THEN Append(blocks, p)
    ELSE [blocks EXCEPT ![patchid + 1] = p]

\* update_geometry(patch) of the writer class in use; arg is the patchid
\* argument of VTFWriter.update_geometry (NoneVal when not given)
UpdateGeometryCall(p, arg) ==
    LET given == wclass = "VTFWriter" /\ arg # NoneVal
        keys == IF given THEN patch_keys ELSE ManagerUpdate(patch_keys, p)
        id == IF given THEN arg ELSE keys[p]
    IN  IF ~given /\ ~UpdateGeometryAllowed
        THEN /\ Raise("update_geometry", p)
             /\ UNCHANGED <<patch_keys, topologies, geometry_blocks,
                            dirty_geometry>>
        ELSE IF wclass = "VTFWriter" /\ Len(geometry_blocks) < id
        THEN /\ Raise("update_geometry", p)
             /\ patch_keys' = keys
             /\ UNCHANGED <<topologies, geometry_blocks, dirty_geometry>>
        ELSE /\ patch_keys' = keys
             /\ topologies' = IF wclass = "VTKWriter"
                              THEN DictPut(topologies, p) ELSE topologies
             /\ geometry_blocks' = IF wclass = "VTFWriter"
                                   THEN VTFStoreBlocks(geometry_blocks, id, p)
                                   ELSE geometry_blocks
             /\ dirty_geometry' = IF wclass = "VTFWriter"
                                  THEN TRUE ELSE dirty_geometry
             /\ UNCHANGED ctx
             /\ last' = Outcome("update_geometry", TRUE,
                                UpdateGeometryReturn(id), p)

UpdateGeometry(p) ==
    /\ Running
    /\ UpdateGeometryCall(p, NoneVal)
    /\ geo_updated' = (geo_updated \/ last'.ok)
    /\ UNCHANGED <<wclass, multiple_timesteps, stepid, step_finalized,
                   geometry_finalized, fields, files, field_blocks, begun,
                   closed, geo_closed>>
    /\ vtk_grid' = NoGrid
    /\ UNCHANGED <<rvars, tvars, pvars, lvars, dvars, kvars>>

\* Writer.update_field of ifem_to_vt/writer: legal once the geometry of the
\* step has been finalized
VTFBaseUpdateFieldAllowed == geometry_finalized

\* update_field(field, patch, data) of the writer class in use
UpdateField(f, p) ==
    /\ Running
    /\ CASE wclass = "VTKWriter" ->
              /\ fields' = [fields EXCEPT ![f] = DictPut(@, p)]
              /\ last' = Outcome("update_field", TRUE, NoneVal, p)
              /\ UNCHANGED <<ctx, field_blocks>>
         [] wclass = "TesselatedWriter" ->
              /\ IF ManagerKnows(patch_keys, p)
                 THEN /\ last' = Outcome("update_field", TRUE, NoneVal, p)
                      /\ UNCHANGED ctx
                 ELSE Raise("update_field", p)
              /\ UNCHANGED <<fields, field_blocks>>
         [] wclass = "VTFWriter" ->
              /\ IF /\ VTFBaseUpdateFieldAllowed
                    /\ ManagerKnows(patch_keys, p)
                    /\ patch_keys[p] < Len(geometry_blocks)
                 THEN /\ Len(field_blocks) < MaxResultBlocks
                      /\ field_blocks' = Append(field_blocks,
                             [name |-> f, step |-> stepid + 1,
                              patchid |-> patch_keys[p]])
                      /\ last' = Outcome("update_field", TRUE, NoneVal, p)
                      /\ UNCHANGED ctx
                 ELSE /\ Raise("update_field", p)
                      /\ UNCHANGED field_blocks
              /\ UNCHANGED fields
    /\ UNCHANGED <<wclass, multiple_timesteps, stepid, step_finalized,
                   geometry_finalized, patch_keys, topologies, files,
                   geometry_blocks, dirty_geometry, begun, closed, geo_closed,
                   geo_updated>>
    /\ vtk_grid' = NoGrid
    /\ UNCHANGED <<rvars, tvars, pvars, lvars, dvars, kvars>>

\* ----------------------------------------------------------------- reader
Bases == {"A", "B"}
Pids == 0..(MaxPids - 1)
Levels == 0..MaxLevel
Nodes == Patches

\* Reader.npatches: the number of patches the file holds for a basis
NPatches(b) == IF b = "A" THEN MaxPids ELSE 1

\* the (basis, index) pairs of the patches of the file
PatchIndex == {k \in Bases \X Pids : k[2] < NPatches(k[1])}

\* Field = namedtuple('Field', ['name', 'basis', 'ncomps', 'kind'])
ReaderFields ==
    { [name |-> "u", basis |-> "A", ncomps |-> 1, kind |-> POINTVALUES],
      [name |-> "v", basis |-> "B", ncomps |-> 2, kind |-> CELLVALUES] }

Idle == [op |-> "idle", lid |-> 0, basis |-> "A", field |-> "u", pid |-> 0]

\* the parametric dimension of the object of catalogue node n: surfaces
\* and curves
Dim(n) == 2 - ((n - 1) % 2)

\* node.obj.knots(): direction d of the object of node n has d + 1 knots
KnotsOf(n) == [d \in 1..Dim(n) |-> [k \in 1..(d + 1) |-> 2 * (k - 1)]]

RECURSIVE Prod(_)
\* the number of entries of an array of the given shape
Prod(shape) == IF shape = << >> THEN 1 ELSE Head(shape) * Prod(Tail(shape))

Lengths(tess) == [d \in 1..Len(tess) |-> Len(tess[d])]

\* t[::-1]
Reverse(t) == [k \in 1..Len(t) |-> t[Len(t) + 1 - k]]

\* nodeview.orientation of the catalogue: flip flags per direction of the
\* node and the inverse permutation, for a patch of d directions
Orientations(d) ==
    { [flip |-> f, perm_inv |-> q] :
        f \in [1..d -> BOOLEAN],
        q \in {g \in [1..d -> 1..d] : \A i \in 1..d : \E j \in 1..d : g[j] = i} }

\* the orientation of a patch whose directions are those of the node
Identity(d) == [flip |-> [i \in 1..d |-> FALSE], perm_inv |-> [i \in 1..d |-> i]]

\* the orientations the catalogue can report for patch k of node n: the
\* patch that created the node is the node's object, any other patch of
\* the node may be flipped and permuted
CatalogueOrientations(n, k) ==
    IF creator[n] = k THEN {Identity(Dim(n))} ELSE Orientations(Dim(n))

NoTess ==
    [node |-> NoneVal, patch |-> <<"none", 0>>, flip |-> << >>,
     perm_inv |-> << >>, tess |-> << >>]

OrientedTesselationFlipAfter(orig, o) ==
    [q \in 1..Len(orig) |->
        IF o.flip[q] THEN Reverse(orig[o.perm_inv[q]]) ELSE orig[o.perm_inv[q]]]

\* the tesselation of Reader._tesselated_patch: flip the directions of the
\* node's schedule, then reorder them by perm_inv
OrientedTesselation(orig, o) ==
    LET orig_tesselation ==
            [i \in 1..Len(orig) |->
                IF o.flip[i] THEN Reverse(orig[i]) ELSE orig[i]]
    IN  [q \in 1..Len(orig) |-> orig_tesselation[o.perm_inv[q]]]

MidpointsAllSamples(t) == t

\* [(a+b)/2 for a, b in zip(t[:-1], t[1:])]
Midpoints(t) == [k \in 1..(Len(t) - 1) |-> (t[k] + t[k + 1]) \div 2]

\* the shape of raw = Reader._tesselate(...) without its last axis
RawShape(tess, cells) ==
    IF cells THEN Lengths([d \in 1..Len(tess) |-> Midpoints(tess[d])])
    ELSE Lengths(tess)

\* raw.shape[-1]: a patch of more than one component is padded to three
RawWidth(ncomps) == IF ncomps > 1 THEN 3 ELSE 1

ReaderIdleInit ==
    /\ nodeof = [k \in PatchIndex |-> 1]
    /\ node_patchid = [n \in Nodes |-> Absent]
    /\ node_last_written = [n \in Nodes |-> Absent]
    /\ discovered = << >>
    /\ emitted = [n \in Nodes |-> -1]
    /\ rpc = Idle
    /\ sent = << >>
    /\ rlast = [kind |-> "none", node |-> NoneVal, lid |-> NoneVal]
    /\ node_tesselation = [n \in Nodes |-> << >>]
    /\ tess_assigned = [n \in Nodes |-> 0]
    /\ rtess = NoTess
    /\ creator = [n \in Nodes |-> <<"none", 0>>]

SkipGeometryStrict(last_written, lid) == last_written > lid

\* the condition of "if node.last_written >= lid: continue"
SkipGeometry(last_written, lid) == last_written >= lid

\* the patch argument of w.update_field in Reader.write_field
FieldTag(pid, patchid) == pid

\* for pid in range(self.npatches(lid, basis)), entered
WriteGeometryStart(lid, b) ==
    /\ Running
    /\ rpc.op = "idle"
    /\ rpc' = [op |-> "geom", lid |-> lid, basis |-> b, field |-> "u", pid |-> 0]
    /\ sent' = << >>
    /\ rlast' = [kind |-> "start", node |-> NoneVal, lid |-> lid]
    /\ rtess' = NoTess
    /\ UNCHANGED <<nodeof, node_patchid, node_last_written, discovered,
                   emitted, node_tesselation, tess_assigned, creator>>
    /\ UNCHANGED wvars
    /\ UNCHANGED <<tvars, xvars>>

NextPid == IF rpc.pid + 1 < NPatches(rpc.basis) THEN [rpc EXCEPT !.pid = @ + 1] ELSE Idle

\* one iteration of the loop of Reader.write_geometry
WriteGeometryPatch ==
    /\ Running
    /\ rpc.op = "geom"
    /\ LET n == nodeof[<<rpc.basis, rpc.pid>>]
           pid0 == IF node_patchid[n] = Absent THEN NoneVal ELSE node_patchid[n]
           lw0 == IF node_last_written[n] = Absent THEN -1
                  ELSE node_last_written[n]
       IN  /\ discovered' = DictPut(discovered, n)
           /\ creator' = IF n \in SeqToSet(discovered) THEN creator
                         ELSE [creator EXCEPT ![n] = <<rpc.basis, rpc.pid>>]
           /\ IF SkipGeometry(lw0, rpc.lid)
              THEN /\ node_patchid' = [node_patchid EXCEPT ![n] = pid0]
                   /\ node_last_written' = [node_last_written EXCEPT ![n] = lw0]
                   /\ rlast' = [kind |-> "skip", node |-> n, lid |-> rpc.lid]
                   /\ rpc' = NextPid
                   /\ UNCHANGED <<sent, emitted, patch_keys, topologies,
                                  geometry_blocks, dirty_geometry, ctx, last,
                                  node_tesselation, tess_assigned>>
              ELSE /\ node_last_written' = [node_last_written EXCEPT ![n] = rpc.lid]
                   /\ node_tesselation' =
                        [node_tesselation EXCEPT ![n] = KnotsOf(n)]
                   /\ tess_assigned' =
                        [tess_assigned EXCEPT ![n] = IF @ < 2 THEN @ + 1 ELSE @]
                   /\ UpdateGeometryCall(n, pid0)
                   /\ sent' = Append(sent, [op |-> "update_geometry",
                                            name |-> "geometry", node |-> n,
                                            tag |-> pid0, comp |-> 0,
                                            rows |-> Prod(Lengths(node_tesselation'[n])),
                                            width |-> 3, cells |-> "unset"])
                   /\ IF last'.ok
                      THEN /\ node_patchid' = [node_patchid EXCEPT ![n] = last'.ret]
                           /\ emitted' = [emitted EXCEPT ![n] = rpc.lid]
                           /\ rlast' = [kind |-> "emit", node |-> n, lid |-> rpc.lid]
                           /\ rpc' = NextPid
                      ELSE /\ node_patchid' = [node_patchid EXCEPT ![n] = pid0]
                           /\ rlast' = [kind |-> "error", node |-> n, lid |-> rpc.lid]
                           /\ rpc' = Idle
                           /\ UNCHANGED emitted
    /\ geo_updated' = (geo_updated \/ rlast'.kind = "emit")
    /\ rtess' = NoTess
    /\ UNCHANGED <<nodeof, wclass, multiple_timesteps, stepid, step_finalized,
                   geometry_finalized, fields, files, field_blocks, begun,
                   closed, geo_closed>>
    /\ UNCHANGED <<tvars, xvars>>

\* for pid in range(self.npatches(lid, field.basis)), entered
WriteFieldStart(lid, f) ==
    /\ Running
    /\ rpc.op = "idle"
    /\ rpc' = [op |-> "field", lid |-> lid, basis |-> f.basis,
               field |-> f.name, pid |-> 0]
    /\ sent' = << >>
    /\ rlast' = [kind |-> "start", node |-> NoneVal, lid |-> lid]
    /\ rtess' = NoTess
    /\ UNCHANGED <<nodeof, node_patchid, node_last_written, discovered,
                   emitted, node_tesselation, tess_assigned, creator>>
    /\ UNCHANGED wvars
    /\ UNCHANGED <<tvars, xvars>>

\* the w.update_field calls of one iteration of Reader.write_field: the
\* whole field, then one call per component when ncomps > 1
FieldCalls(f, n, pid, tess) ==
    LET cells == f.kind = CELLVALUES
        rows == Prod(RawShape(tess, cells))
        call(c) == [op |-> "update_field", name |-> f.name, node |-> n,
                    tag |-> FieldTag(pid, node_patchid[n]), comp |-> c,
                    rows |-> rows,
                    width |-> IF c = 0 THEN RawWidth(f.ncomps) ELSE 1,
                    cells |-> IF c # 0 THEN "unset"
                              ELSE IF cells THEN "True" ELSE "False"]
    IN  IF f.ncomps > 1
        THEN <<call(0)>> \o [c \in 1..f.ncomps |-> call(c)]
        ELSE <<call(0)>>

\* one iteration of the loop of Reader.write_field; _tesselated_patch needs
\* the node to be in the catalogue with its tesselation set; the catalogue
\* answers the lookup with the node and any orientation o
WriteFieldPatch ==
    /\ Running
    /\ rpc.op = "field"
    /\ LET n == nodeof[<<rpc.basis, rpc.pid>>]
           f == CHOOSE g \in ReaderFields : g.name = rpc.field
       IN  IF n \in SeqToSet(discovered) /\ tess_assigned[n] > 0
           THEN \E o \in CatalogueOrientations(n, <<rpc.basis, rpc.pid>>) :
                LET tess == OrientedTesselation(node_tesselation[n], o)
                IN  /\ sent' = sent \o FieldCalls(f, n, rpc.pid, tess)
                    /\ rlast' = [kind |-> "field", node |-> n, lid |-> rpc.lid]
                    /\ rtess' = [node |-> n, patch |-> <<rpc.basis, rpc.pid>>,
                                 flip |-> o.flip, perm_inv |-> o.perm_inv,
                                 tess |-> tess]
                    /\ rpc' = NextPid
           ELSE /\ rlast' = [kind |-> "error", node |-> n, lid |-> rpc.lid]
                /\ rpc' = Idle
                /\ rtess' = NoTess
                /\ UNCHANGED sent
    /\ UNCHANGED <<nodeof, node_patchid, node_last_written, discovered,
                   emitted, node_tesselation, tess_assigned, creator>>
    /\ UNCHANGED wvars
    /\ UNCHANGED <<tvars, xvars>>

\* ---------------------------------------------------- element construction
Shapes ==
    UNION { [1..d -> 2..MaxSamples] : d \in 1..3 }

TessIdleInit ==
    /\ tshape = <<2>>
    /\ tpc = "idle"
    /\ tnodes = << >>
    /\ teidxs = << >>
    /\ tflat = << >>

TessInit ==
    /\ tshape \in Shapes
    /\ tpc = "patch"
    /\ tnodes = << >>
    /\ teidxs = << >>
    /\ tflat = << >>

\* nodes = patch(*node.tesselation)
EvaluateNodes ==
    /\ tpc = "patch"
    /\ tnodes' = FlattenNodes(tshape)
    /\ tpc' = "nodes"
    /\ UNCHANGED <<tshape, teidxs, tflat>>
    /\ UNCHANGED <<wvars, rvars, xvars>>

\* the "# Elements" block
BuildElements ==
    /\ tpc = "nodes"
    /\ teidxs' = Elements(tshape)
    /\ tpc' = "elements"
    /\ UNCHANGED <<tshape, tnodes, tflat>>
    /\ UNCHANGED <<wvars, rvars, xvars>>

\* np.ndarray.flatten(eidxs), as passed to w.update_geometry
FlattenElements ==
    /\ tpc = "elements"
    /\ tflat' = FlattenRows(teidxs)
    /\ tpc' = "sent"
    /\ UNCHANGED <<tshape, tnodes, teidxs>>
    /\ UNCHANGED <<wvars, rvars, xvars>>

\* ---------------------------------------------- periodic meshes and arrays
\* the multi-indices (from 0) of an array of the given shape
Grid(shape) == SeqToSet(ProductSeq(shape))

RECURSIVE Dot(_, _)
Dot(idx, strides) ==
    IF idx = << >> THEN 0
    ELSE Head(idx) * Head(strides) + Dot(Tail(idx), Tail(strides))

\* util.nodemap(shape, strides, periodic, init): node init + idx . strides at
\* multi-index idx, the last index of a periodic axis wrapping to index 0
Mknodemap(shape, strides, periodic, init) ==
    [idx \in Grid(shape) |->
        init + Dot([d \in 1..Len(shape) |->
                      IF d \in periodic /\ idx[d] = shape[d] - 1
                      THEN 0 ELSE idx[d]], strides)]

\* the node numbering structured_cells uses when no nodemap is given
RavelMap(nodeshape) ==
    [idx \in Grid(nodeshape) |-> RavelMultiIndex(idx, nodeshape)]

\* util.structured_cells(cellshape, pardim, nodemap): the cells of a
\* structured grid, wound as in Reader.write_geometry, numbered by nodemap
StructuredCells(cellshape, nodemap) ==
    LET nidxs == ProductSeq(cellshape)
        cs == Corners(Len(cellshape))
    IN  [e \in 1..Len(nidxs) |->
           [c \in 1..Len(cs) |-> nodemap[Shift(nidxs[e], cs[c])]]]

\* WRFReader.nplanar
Nplanar == nlat * nlon

PlanarShapeOfNodes == <<nlat, nlon>>

\* WRFReader.planar_shape
PlanarShape == <<nlat - 1, nlon - 1>>

\* the cell shape of the longitude seam of the planar mesh
SeamCellShape == <<nlat - 1, 1>>

\* the nodemap of the longitude seam of the planar mesh
SeamNodemap == Mknodemap(<<nlat, 2>>, <<nlon, nlon - 1>>, {}, 0)

\* nodemap[r] = nodemap[r, 0] for row r (from 0) of a two-row nodemap
CollapseRow(nodemap, r) ==
    [idx \in DOMAIN nodemap |->
        IF idx[1] = r THEN nodemap[<<r, 0>>] ELSE nodemap[idx]]

SouthNodemapUncollapsed ==
    Mknodemap(<<2, nlon + 1>>, <<Nplanar, 1>>, {2}, 0)

\* the nodemap of the south cap: row 0 is the southern boundary, row 1 the
\* pole
SouthNodemap ==
    CollapseRow(Mknodemap(<<2, nlon + 1>>, <<Nplanar, 1>>, {2}, 0), 1)

\* the nodemap of the north cap: row 0 is the pole, row 1 the northern
\* boundary
NorthNodemap ==
    CollapseRow(Mknodemap(<<2, nlon + 1>>, <<0 - nlon - 1, 1>>, {2},
                          Nplanar + 1), 0)

PeriodicIdleInit ==
    /\ nlat = 2
    /\ nlon = 2
    /\ nvert = 2
    /\ volumetric = "planar"
    /\ ppc = "idle"
    /\ pcells = << >>
    /\ pblocks = << >>
    /\ pdata = << >>

\* a dataset of any extents, converted with config.periodic set and any
\* config.volumetric
PeriodicInit ==
    /\ nlat \in 1..MaxLat
    /\ nlon \in 1..MaxLon
    /\ nvert \in 1..MaxVert
    /\ volumetric \in {"planar", "volumetric", "extrude"}
    /\ ppc = "start"
    /\ pcells = << >>
    /\ pblocks = << >>
    /\ pdata = << >>

\* append a block of cells: np.append(cells, appendix, axis=0)
AppendCells(appendix, next) ==
    /\ pcells' = pcells \o appendix
    /\ pblocks' = Append(pblocks, Len(appendix))
    /\ ppc' = next
    /\ UNCHANGED <<nlat, nlon, nvert, volumetric, pdata>>
    /\ UNCHANGED <<wvars, rvars, tvars, lvars, dvars, gvars, kvars>>

\* nodeshape = cellshape + 1 in structured_cells
NodeShape(cellshape) == [d \in 1..Len(cellshape) |-> cellshape[d] + 1]

\* WRFReader.periodic_planar_mesh: the basic structured mesh
PlanarInterior ==
    /\ ppc = "nodes"
    /\ volumetric = "planar"
    /\ AppendCells(StructuredCells(PlanarShape, RavelMap(NodeShape(PlanarShape))),
                   "seam")

\* ... the layer of cells for periodicity in the longitude direction
PlanarSeam ==
    /\ ppc = "seam"
    /\ AppendCells(StructuredCells(SeamCellShape, SeamNodemap), "south")

\* ... the layer of cells tying the southern boundary to the south pole
PlanarSouth ==
    /\ ppc = "south"
    /\ AppendCells(StructuredCells(<<1, nlon>>, SouthNodemap), "north")

\* ... the layer of cells tying the northern boundary to the north pole
PlanarNorth ==
    /\ ppc = "north"
    /\ AppendCells(StructuredCells(<<1, nlon>>, NorthNodemap), "cells")

\* WRFReader.volumetric_shape
VolumetricShape == <<nvert - 1, nlat - 1, nlon - 1>>

\* nhorizontal = self.nplanar + 2
Nhorizontal == Nplanar + 2

SkipPolesNever(cells) == cells

\* cells += cells // (self.nlatitude * self.nlongitude) * 2
SkipPoles(cells) ==
    [e \in 1..Len(cells) |->
        [c \in 1..Len(cells[e]) |->
            cells[e][c] + (cells[e][c] \div (nlat * nlon)) * 2]]

\* nodemap[:,r] = (nodemap[:,r] - pole_id) // nhorizontal * nhorizontal
\*                + pole_id
CollapseLayerRow(nodemap, r, pole_id) ==
    [idx \in DOMAIN nodemap |->
        IF idx[2] = r
        THEN ((nodemap[idx] - pole_id) \div Nhorizontal) * Nhorizontal + pole_id
        ELSE nodemap[idx]]

\* WRFReader.periodic_volumetric_mesh: the basic structured mesh
VolumetricInterior ==
    /\ ppc = "nodes"
    /\ volumetric # "planar"
    /\ AppendCells(SkipPoles(StructuredCells(VolumetricShape,
                                 RavelMap(NodeShape(VolumetricShape)))),
                   "vseam")

\* ... the layer of cells for periodicity in the longitude direction
VolumetricSeam ==
    /\ ppc = "vseam"
    /\ AppendCells(StructuredCells(<<nvert - 1, nlat - 1, 1>>,
                       Mknodemap(<<nvert, nlat, 2>>,
                                 <<Nhorizontal, nlon, nlon - 1>>, {}, 0)),
                   "vsouth")

\* ... the layer of cells tying the southern boundary to the south pole
VolumetricSouth ==
    /\ ppc = "vsouth"
    /\ AppendCells(StructuredCells(<<nvert - 1, 1, nlon>>,
                       CollapseLayerRow(
                           Mknodemap(<<nvert, 2, nlon + 1>>,
                                     <<Nplanar + 2, Nplanar, 1>>, {3}, 0),
                           1, Nplanar)),
                   "vnorth")

\* ... the layer of cells tying the northern boundary to the north pole
VolumetricNorth ==
    /\ ppc = "vnorth"
    /\ AppendCells(StructuredCells(<<nvert - 1, 1, nlon>>,
                       CollapseLayerRow(
                           Mknodemap(<<nvert, 2, nlon + 1>>,
                                     <<Nhorizontal, 0 - nlon - 1, 1>>, {3},
                                     Nplanar + 1),
                           0, Nplanar + 1)),
                   "cells")

\* one value of an array: a regular value of grid position (v, i, j), or
\* the polar mean of layer v computed from row i; xk is the kind of the
\* horizontal coordinate it is combined with
Entry(k, v, i, j) == [k |-> k, v |-> v, i |-> i, j |-> j, xk |-> k]

\* self.nc[name][stepid, ...] of a planar variable, unstaggered
Data2 ==
    [i \in 1..nlat |-> [j \in 1..nlon |-> Entry("reg", 0, i - 1, j - 1)]]

\* self.nc[name][stepid, ...] of a volumetric variable, unstaggered
Data3 ==
    [v \in 1..nvert |->
        [i \in 1..nlat |-> [j \in 1..nlon |-> Entry("reg", v - 1, i - 1, j - 1)]]]

PoleAppendixNorthFirst(south, north) == <<north, south>>

\* appendix = np.array([south, north]).T
PoleAppendix(south, north) == <<south, north>>

\* WRFReader.variable_at for a variable of dims horizontal and vertical
\* dimensions, with config.periodic set: the rows of the array returned (a
\* one-dimensional array is one row)
VariableAt(dims, include_poles, extrude_if_planar) ==
    LET sliced == dims = 3 /\ volumetric = "planar"
        layers == IF dims = 3
                  THEN (IF sliced THEN <<Data3[1]>> ELSE Data3)
                  ELSE <<Data2>>
        south(L) == Entry("south", layers[L][1][1].v, 0, NoneVal)
        north(L) == Entry("north", layers[L][nlat][1].v, nlat - 1, NoneVal)
        row(L) == IF include_poles
                  THEN FlattenRows(layers[L]) \o PoleAppendix(south(L), north(L))
                  ELSE FlattenRows(layers[L])
        rows == [L \in 1..Len(layers) |-> row(L)]
    IN  IF (dims = 2 \/ sliced) /\ extrude_if_planar
        THEN [v \in 1..nvert |-> rows[1]]
        ELSE rows

\* WRFReader.velocity_field with global mapping: one component of U, V, W
\* read without poles, cut into layers of nlat * nlon values, the polar
\* means of each layer appended to it, south then north
VelocityField ==
    LET data == FlattenRows(VariableAt(3, FALSE, volumetric = "extrude"))
        nlayers == Len(data) \div (nlat * nlon)
        layer(L) == SubSeq(data, (L - 1) * nlat * nlon + 1, L * nlat * nlon)
        south(L) == Entry("south", layer(L)[1].v, 0, NoneVal)
        north(L) == Entry("north", layer(L)[1].v, nlat - 1, NoneVal)
    IN  [L \in 1..nlayers |-> Append(Append(layer(L), south(L)), north(L))]

\* the nodal array of WRFReader.patch_at with global mapping: x of XLONG,
\* z of HGT (planar) or PH + PHB (volumetric), x broadcast over the layers
GeometryNodes ==
    LET x == VariableAt(2, TRUE, FALSE)[1]
        z == IF volumetric = "planar" THEN VariableAt(2, TRUE, FALSE)
             ELSE VariableAt(3, TRUE, FALSE)
    IN  [v \in 1..Len(z) |->
           [r \in 1..Len(x) |-> [z[v][r] EXCEPT !.xk = x[r].k]]]

SetData(rows, next) ==
    /\ pdata' = FlattenRows(rows)
    /\ ppc' = next
    /\ UNCHANGED <<nlat, nlon, nvert, volumetric, pcells, pblocks>>
    /\ UNCHANGED <<wvars, rvars, tvars, lvars, dvars, gvars, kvars>>

\* patch_at: the nodes of the step's patch
BuildGeometry ==
    /\ ppc = "start"
    /\ SetData(GeometryNodes, "nodes")

\* WRFReader.write: data.reshape(patch.num_nodes, -1) of a variable the
\* configuration allows
BuildVariable(dims) ==
    /\ ppc \in {"cells", "field", "velocity"}
    /\ volumetric = "volumetric" => dims = 3
    /\ SetData(VariableAt(dims, TRUE, volumetric = "extrude"), "field")

\* WRFReader.write: the velocity field
BuildVelocity ==
    /\ ppc \in {"cells", "field", "velocity"}
    /\ SetData(VelocityField, "velocity")

\* ------------------------------------------------------ Reader.basis_level
UpdateLevels == 0..MaxUpdateLevel

RECURSIVE SortedSeq(_)
\* the levels of a set in increasing order, as basis.updates lists them
SortedSeq(S) ==
    IF S = {} THEN << >>
    ELSE LET m == CHOOSE x \in S : \A y \in S : x <= y
         IN  <<m>> \o SortedSeq(S \ {m})

RECURSIVE LatestUpdate(_, _)
\* next(l for l in basis.updates[::-1] if l <= level); NoneVal stands for
\* StopIteration
LatestUpdate(updates, level) ==
    IF updates = << >> THEN NoneVal
    ELSE IF updates[Len(updates)] <= level THEN updates[Len(updates)]
    ELSE LatestUpdate(SubSeq(updates, 1, Len(updates) - 1), level)

\* The except clause formats its message from the name index, which is
\* bound nowhere: evaluating it raises NameError before ValueError is built
BasisLevelFailure(level, basis) ==
    [kind |-> "error", class |-> "NameError", level |-> NoneVal,
     timestep |-> NoneVal, basis |-> "none"]

\* Reader.basis_level(level, basis)
BasisLevel(updates, level, basis) ==
    LET l == LatestUpdate(updates, level)
    IN  IF l # NoneVal
        THEN [kind |-> "level", class |-> "none", level |-> l,
              timestep |-> NoneVal, basis |-> "none"]
        ELSE BasisLevelFailure(level, basis)

NoResult ==
    [kind |-> "none", class |-> "none", level |-> NoneVal,
     timestep |-> NoneVal, basis |-> "none"]

LevelIdleInit ==
    /\ bl_updates = << >>
    /\ bl_level = 0
    /\ bl_basis = "A"
    /\ bl_result = NoResult

\* a basis with any set of update levels, asked for at any level
LevelInit ==
    /\ bl_updates \in {SortedSeq(S) : S \in SUBSET UpdateLevels}
    /\ bl_level \in UpdateLevels
    /\ bl_basis \in Bases
    /\ bl_result = NoResult

\* Reader.npatches and Reader.patch: level = self.basis_level(level, basis)
\* is their first step, and its error is theirs
RequestPatch(caller) ==
    /\ bl_result.kind = "none"
    /\ bl_result' = [BasisLevel(bl_updates, bl_level, bl_basis)
                        EXCEPT !.kind = IF @ = "error" THEN "error" ELSE caller]
    /\ UNCHANGED <<bl_updates, bl_level, bl_basis>>
    /\ UNCHANGED <<wvars, rvars, tvars, pvars, dvars, gvars, kvars>>

\* ------------------------------------------------------------ Reader.write
\* the groups a level of the file can hold for one basis: with or without
\* a basis update, with or without a field
Groups(b) ==
    { [basis |-> b, has_basis |-> h, nfields |-> k] :
        h \in BOOLEAN, k \in 0..1 }

\* lgrp.items() of one level: the groups of the bases present, by name
LevelGroups ==
    {<< >>}
    \cup {<<g>> : g \in Groups("A") \cup Groups("B")}
    \cup {<<g, h>> : g \in Groups("A"), h \in Groups("B")}

WriteIdleInit ==
    /\ wr_file = << >>
    /\ wr_lid = 0
    /\ wr_todo = << >>
    /\ wr_stage = "idle"
    /\ wr_written = [b \in Bases |-> -1]
    /\ wr_log = << >>

\* Reader.write(w) starts on a file of levels 0..MaxLevel without modes
WriteInit ==
    /\ wr_file \in [1..(MaxLevel + 1) -> LevelGroups]
    /\ wr_lid = 0
    /\ wr_todo = wr_file[1]
    /\ wr_stage = "level"
    /\ wr_written = [b \in Bases |-> -1]
    /\ wr_log = << >>

WriteLog(op, b) == wr_log' = Append(wr_log, [op |-> op, lid |-> wr_lid, basis |-> b])

\* the basis has an update at or before level lid (Reader.basis_level)
HasLevel(b, lid) ==
    \E l \in 0..lid : \E i \in 1..Len(wr_file[l + 1]) :
        wr_file[l + 1][i].basis = b /\ wr_file[l + 1][i].has_basis

\* for lid, time, lgrp in self.times(): the next level, or the end
WriteNextLevel ==
    /\ wr_stage = "level"
    /\ wr_todo = << >>
    /\ IF wr_lid + 1 < Len(wr_file)
       THEN /\ wr_lid' = wr_lid + 1
            /\ wr_todo' = wr_file[wr_lid + 2]
            /\ UNCHANGED wr_stage
       ELSE /\ wr_stage' = "done"
            /\ UNCHANGED <<wr_lid, wr_todo>>
    /\ UNCHANGED <<wr_file, wr_written, wr_log>>
    /\ UNCHANGED <<wvars, rvars, tvars, pvars, lvars, gvars, kvars>>

\* if 'basis' in bgrp: self.write_geometry(w, lid, basis), for the one
\* patch of the basis
WriteGroupGeometry ==
    /\ wr_stage = "level"
    /\ wr_todo # << >>
    /\ LET g == Head(wr_todo)
       IN  IF g.has_basis /\ ~SkipGeometry(wr_written[g.basis], wr_lid)
           THEN /\ WriteLog("update_geometry", g.basis)
                /\ wr_written' = [wr_written EXCEPT ![g.basis] = wr_lid]
           ELSE UNCHANGED <<wr_log, wr_written>>
    /\ wr_stage' = "add_time"
    /\ UNCHANGED <<wr_file, wr_lid, wr_todo>>
    /\ UNCHANGED <<wvars, rvars, tvars, pvars, lvars, gvars, kvars>>

\* w.add_time(time)
WriteGroupAddTime ==
    /\ wr_stage = "add_time"
    /\ WriteLog("add_time", Head(wr_todo).basis)
    /\ wr_stage' = "fields"
    /\ UNCHANGED <<wr_file, wr_lid, wr_todo, wr_written>>
    /\ UNCHANGED <<wvars, rvars, tvars, pvars, lvars, gvars, kvars>>

\* self.write_field(w, lid, field) for the fields of the group; npatches
\* fails when the basis has no update at or before the level
WriteGroupFields ==
    /\ wr_stage = "fields"
    /\ LET g == Head(wr_todo)
       IN  IF g.nfields = 0
           THEN /\ wr_stage' = "level"
                /\ wr_todo' = Tail(wr_todo)
                /\ UNCHANGED wr_log
           ELSE IF HasLevel(g.basis, wr_lid)
           THEN /\ WriteLog("update_field", g.basis)
                /\ wr_stage' = "level"
                /\ wr_todo' = Tail(wr_todo)
           ELSE /\ wr_stage' = "error"
                /\ UNCHANGED <<wr_todo, wr_log>>
    /\ UNCHANGED <<wr_file, wr_lid, wr_written>>
    /\ UNCHANGED <<wvars, rvars, tvars, pvars, lvars, gvars, kvars>>

\* ----------------------------------------------------------- WRFReader.write
\* the variables a WRF file may hold, in the file's order, and what
\* WRFReader.variable_type says of each
WrfNames == <<"Times", "HGT", "U", "V", "W">>

VariableType(name) ==
    CASE name = "Times" -> "none"
      [] name = "HGT" -> "planar"
      [] OTHER -> "volumetric"

AllowedTypes ==
    IF wrf_volumetric = "volumetric" THEN {"volumetric"}
    ELSE {"volumetric", "planar"}

RECURSIVE Filter(_, _)
Filter(seq, S) ==
    IF seq = << >> THEN << >>
    ELSE IF Head(seq) \in S THEN <<Head(seq)>> \o Filter(Tail(seq), S)
    ELSE Filter(Tail(seq), S)

\* variables = [variable for variable in self.nc.variables if ...]
Variables ==
    Filter(WrfNames, {v \in wrf_dataset : VariableType(v) \in AllowedTypes})

\* velocity = all(x in variables for x in 'UVW')
Velocity == {"U", "V", "W"} \subseteq SeqToSet(Variables)

WriteOrderFieldsFirst ==
    <<"add_step", "update_geometry", "fields", "finalize_geometry",
      "finalize_step">>

\* the statements of the loop body of WRFReader.write, in program order
WriteOrder ==
    <<"add_step", "update_geometry", "finalize_geometry", "fields",
      "finalize_step">>

\* the statement after statement pc of the loop body; the loop test after
\* the last one
AfterStatement(pc) ==
    LET i == CHOOSE k \in 1..Len(WriteOrder) : WriteOrder[k] = pc
    IN  IF i = Len(WriteOrder) THEN "add_step" ELSE WriteOrder[i + 1]

WrfIdleInit ==
    /\ wrf_nsteps = 0
    /\ wrf_dataset = {}
    /\ wrf_volumetric = "planar"
    /\ wrf_pc = "idle"
    /\ wrf_todo = << >>
    /\ wrf_log = << >>

\* a file of any number of steps holding any of the variables, converted
\* with any config.volumetric
WrfInit ==
    /\ wrf_nsteps \in 0..MaxSteps
    /\ wrf_dataset \in SUBSET SeqToSet(WrfNames)
    /\ wrf_volumetric \in {"planar", "volumetric", "extrude"}
    /\ wrf_pc = "add_step"
    /\ wrf_todo = << >>
    /\ wrf_log = << >>

\* a call on the writer w, as the writer receives it
WrfCall(op) == wrf_log' = Append(wrf_log, op)

\* the call was legal or raised the writer's AssertionError
WrfOutcome(op, allowed) ==
    IF allowed
    THEN ctx' = ctx /\ last' = Outcome(op, TRUE, NoneVal, NoneVal)
    ELSE Raise(op, NoneVal)

\* for stepid in range(self.nsteps): w.add_step(time=float(stepid))
WrfAddStep ==
    /\ last.ok
    /\ wrf_pc = "add_step"
    /\ stepid + 1 < wrf_nsteps
    /\ WrfCall("add_step")
    /\ WrfOutcome("add_step", StepEnterAllowed)
    /\ IF StepEnterAllowed
       THEN /\ stepid' = stepid + 1
            /\ step_finalized' = FALSE
            /\ geometry_finalized' = FALSE
            /\ begun' = begun + 1
            /\ geo_closed' = FALSE
            /\ geo_updated' = FALSE
       ELSE UNCHANGED <<stepid, step_finalized, geometry_finalized, begun,
                        geo_closed, geo_updated>>
    /\ wrf_pc' = AfterStatement("add_step")
    /\ UNCHANGED <<wclass, multiple_timesteps, patch_keys, topologies, fields,
                   files, geometry_blocks, dirty_geometry, field_blocks, closed>>
    /\ UNCHANGED <<wrf_nsteps, wrf_dataset, wrf_volumetric, wrf_todo>>
    /\ UNCHANGED <<rvars, tvars, pvars, lvars, dvars, gvars>>

\* the loop ends after the last step
WrfDone ==
    /\ last.ok
    /\ wrf_pc = "add_step"
    /\ stepid + 1 >= wrf_nsteps
    /\ wrf_pc' = "done"
    /\ UNCHANGED <<wrf_nsteps, wrf_dataset, wrf_volumetric, wrf_todo, wrf_log>>
    /\ UNCHANGED <<wvars, rvars, tvars, pvars, lvars, dvars, gvars>>

\* patch = self.patch_at(stepid); w.update_geometry(patch)
WrfUpdateGeometry ==
    /\ last.ok
    /\ wrf_pc = "update_geometry"
    /\ WrfCall("update_geometry")
    /\ UpdateGeometryCall(1, NoneVal)
    /\ geo_updated' = (geo_updated \/ last'.ok)
    /\ wrf_pc' = AfterStatement("update_geometry")
    /\ UNCHANGED <<wclass, multiple_timesteps, stepid, step_finalized,
                   geometry_finalized, fields, files, field_blocks, begun,
                   closed, geo_closed>>
    /\ UNCHANGED <<wrf_nsteps, wrf_dataset, wrf_volumetric, wrf_todo>>
    /\ UNCHANGED <<rvars, tvars, pvars, lvars, dvars, gvars>>

\* w.finalize_geometry(): the part of Writer.geometry after its yield
WrfFinalizeGeometry ==
    /\ last.ok
    /\ wrf_pc = "finalize_geometry"
    /\ WrfCall("finalize_geometry")
    /\ WrfOutcome("finalize_geometry", TRUE)
    /\ geometry_finalized' = TRUE
    /\ dirty_geometry' = FALSE
    /\ geo_closed' = TRUE
    /\ wrf_pc' = AfterStatement("finalize_geometry")
    /\ UNCHANGED <<wclass, multiple_timesteps, stepid, step_finalized,
                   patch_keys, topologies, fields, files, geometry_blocks,
                   field_blocks, begun, closed, geo_updated>>
    /\ UNCHANGED <<wrf_nsteps, wrf_dataset, wrf_volumetric, wrf_todo>>
    /\ UNCHANGED <<rvars, tvars, pvars, lvars, dvars, gvars>>

\* the fields still to write in this step: every variable, then WIND
FieldsOfStep == IF Velocity THEN Append(Variables, "WIND") ELSE Variables

\* for variable in variables: ... w.update_field(field), and
\* if velocity: w.update_field(self.velocity_field(patch, stepid));
\* the first field of a step starts the list anew. A field needs the
\* geometry finalized (Writer.field)
WrfUpdateField ==
    /\ last.ok
    /\ wrf_pc \in {"fields", "more_fields"}
    /\ LET todo == IF wrf_pc = "fields" THEN FieldsOfStep ELSE wrf_todo
       IN  /\ todo # << >>
           /\ wrf_todo' = Tail(todo)
    /\ WrfCall("update_field")
    /\ WrfOutcome("update_field", VTFBaseUpdateFieldAllowed)
    /\ wrf_pc' = "more_fields"
    /\ UNCHANGED <<wclass, multiple_timesteps, stepid, step_finalized,
                   geometry_finalized, patch_keys, topologies, fields, files,
                   geometry_blocks, dirty_geometry, field_blocks, begun,
                   closed, geo_closed, geo_updated>>
    /\ UNCHANGED <<wrf_nsteps, wrf_dataset, wrf_volumetric>>
    /\ UNCHANGED <<rvars, tvars, pvars, lvars, dvars, gvars>>

\* the loops over the fields are over: on to the next statement
WrfFieldsDone ==
    /\ last.ok
    /\ \/ wrf_pc = "fields" /\ FieldsOfStep = << >>
       \/ wrf_pc = "more_fields" /\ wrf_todo = << >>
    /\ wrf_pc' = AfterStatement("fields")
    /\ wrf_todo' = << >>
    /\ UNCHANGED <<wrf_nsteps, wrf_dataset, wrf_volumetric, wrf_log>>
    /\ UNCHANGED <<wvars, rvars, tvars, pvars, lvars, dvars, gvars>>

\* w.finalize_step(): the part of Writer.step after its yield
WrfFinalizeStep ==
    /\ last.ok
    /\ wrf_pc = "finalize_step"
    /\ WrfCall("finalize_step")
    /\ WrfOutcome("finalize_step", StepExitAllowed)
    /\ IF StepExitAllowed
       THEN step_finalized' = TRUE /\ closed' = closed + 1
       ELSE UNCHANGED <<step_finalized, closed>>
    /\ wrf_pc' = AfterStatement("finalize_step")
    /\ UNCHANGED <<wclass, multiple_timesteps, stepid, geometry_finalized,
                   patch_keys, topologies, fields, files, geometry_blocks,
                   dirty_geometry, field_blocks, begun, geo_closed,
                   geo_updated>>
    /\ UNCHANGED <<wrf_nsteps, wrf_dataset, wrf_volumetric, wrf_todo>>
    /\ UNCHANGED <<rvars, tvars, pvars, lvars, dvars, gvars>>

\* ----------------------------------------------------------- specifications
WriterNext ==
    \/ StepEnter
    \/ StepExit
    \/ GeometryEnter
    \/ GeometryExit
    \/ FieldEnter
    \/ FieldExit
    \/ \E p \in Patches : UpdateGeometry(p)
    \/ \E f \in FieldNames, p \in Patches : UpdateField(f, p)

\* the parts a specification does not run stay idle
OthersIdle ==
    PeriodicIdleInit /\ LevelIdleInit /\ WriteIdleInit /\ WrfIdleInit

WriterSpecInit == WriterInit /\ ReaderIdleInit /\ TessIdleInit /\ OthersIdle

SpecWriter == WriterSpecInit /\ [][WriterNext]_vars

\* The reader drives a writer that has a step open (Writer.step entered)
ReaderWriterInit ==
    /\ wclass \in WriterClasses
    /\ multiple_timesteps = TRUE
    /\ stepid = 0
    /\ step_finalized = FALSE
    /\ geometry_finalized = FALSE
    /\ patch_keys = [p \in Patches |-> NoneVal]
    /\ topologies = << >>
    /\ fields = [f \in FieldNames |-> << >>]
    /\ files = << >>
    /\ geometry_blocks = << >>
    /\ dirty_geometry = FALSE
    /\ field_blocks = << >>
    /\ ctx = <<"step">>
    /\ last = Outcome("step_enter", TRUE, NoneVal, NoneVal)
    /\ begun = 1
    /\ closed = 0
    /\ geo_closed = FALSE
    /\ geo_updated = FALSE
    /\ vtk_grid = NoGrid

\* Reader.__init__ and __enter__: an empty catalogue; nodeof is the node the
\* catalogue resolves each patch of the file to
ReaderInit ==
    /\ nodeof \in [PatchIndex -> Nodes]
    /\ node_patchid = [n \in Nodes |-> Absent]
    /\ node_last_written = [n \in Nodes |-> Absent]
    /\ discovered = << >>
    /\ emitted = [n \in Nodes |-> -1]
    /\ rpc = Idle
    /\ sent = << >>
    /\ rlast = [kind |-> "none", node |-> NoneVal, lid |-> NoneVal]
    /\ node_tesselation = [n \in Nodes |-> << >>]
    /\ tess_assigned = [n \in Nodes |-> 0]
    /\ rtess = NoTess
    /\ creator = [n \in Nodes |-> <<"none", 0>>]

\* the level Reader.write has reached: fields are written at the level of
\* the latest geometry written
CurrentLevel ==
    LET m == CHOOSE x \in {emitted[n] : n \in Nodes} :
                 \A n \in Nodes : emitted[n] <= x
    IN  IF m < 0 THEN 0 ELSE m

ReaderNext ==
    \/ \E lid \in Levels, b \in Bases : WriteGeometryStart(lid, b)
    \/ WriteGeometryPatch
    \/ \E f \in ReaderFields : WriteFieldStart(CurrentLevel, f)
    \/ WriteFieldPatch

ReaderSpecInit == ReaderWriterInit /\ ReaderInit /\ TessIdleInit /\ OthersIdle

SpecReader == ReaderSpecInit /\ [][ReaderNext]_vars

TessNext ==
    \/ EvaluateNodes
    \/ BuildElements
    \/ FlattenElements

TessSpecInit ==
    /\ wclass = "VTKWriter"
    /\ multiple_timesteps = TRUE
    /\ WriterEntered
    /\ ReaderIdleInit
    /\ TessInit
    /\ OthersIdle

SpecTess == TessSpecInit /\ [][TessNext]_vars

\* an idle writer, reader and element construction
RestIdle ==
    /\ wclass = "VTKWriter"
    /\ multiple_timesteps = TRUE
    /\ WriterEntered
    /\ ReaderIdleInit
    /\ TessIdleInit
    /\ WrfIdleInit

PeriodicNext ==
    \/ BuildGeometry
    \/ PlanarInterior
    \/ PlanarSeam
    \/ PlanarSouth
    \/ PlanarNorth
    \/ VolumetricInterior
    \/ VolumetricSeam
    \/ VolumetricSouth
    \/ VolumetricNorth
    \/ \E dims \in {2, 3} : BuildVariable(dims)
    \/ BuildVelocity

PeriodicSpecInit == RestIdle /\ PeriodicInit /\ LevelIdleInit /\ WriteIdleInit

SpecPeriodic == PeriodicSpecInit /\ [][PeriodicNext]_vars

LevelNext == \E caller \in {"npatches", "patch"} : RequestPatch(caller)

LevelSpecInit == RestIdle /\ PeriodicIdleInit /\ LevelInit /\ WriteIdleInit

SpecLevel == LevelSpecInit /\ [][LevelNext]_vars

WriteNext ==
    \/ WriteNextLevel
    \/ WriteGroupGeometry
    \/ WriteGroupAddTime
    \/ WriteGroupFields

WriteSpecInit == RestIdle /\ PeriodicIdleInit /\ LevelIdleInit /\ WriteInit

SpecWrite == WriteSpecInit /\ [][WriteNext]_vars

WrfNext ==
    \/ WrfAddStep
    \/ WrfDone
    \/ WrfUpdateGeometry
    \/ WrfFinalizeGeometry
    \/ WrfUpdateField
    \/ WrfFieldsDone
    \/ WrfFinalizeStep

WrfSpecInit ==
    /\ WriterInit
    /\ ReaderIdleInit
    /\ TessIdleInit
    /\ PeriodicIdleInit
    /\ LevelIdleInit
    /\ WriteIdleInit
    /\ WrfInit

SpecWrf == WrfSpecInit /\ [][WrfNext]_vars

\* ------------------------------------------------------------------ claims

\* C1: a step begins only when no step is open (none begun, or every begun
\* step closed); a begin while a step is open fails; every successful begin
\* adds exactly 1 to the step counter, so the k-th begun step has stepid = k.
C1_BeginStep ==
    /\ stepid = begun - 1
    /\ (last.op = "step_enter" /\ last.ok) => begun = closed + 1
    /\ (last.op = "step_enter" /\ ~last.ok) => begun > closed

C1_Witness ==
    last.op = "step_enter" /\ last.ok /\ begun = 2 /\ stepid = 1

\* A step is open and its geometry has not been closed yet
GeometryLegal == begun > closed /\ ~geo_closed

\* C2: an update_geometry issued while no step is open, or after the
\* geometry of the current step was closed, fails and assigns no global
\* patch ID.
C2_UpdateGeometryLegality ==
    [][(last'.op = "update_geometry" /\ ~GeometryLegal)
        => (~last'.ok /\ patch_keys' = patch_keys)]_vars

\* A step is open and its geometry has been finalized and is not open
FieldLegal == begun > closed /\ geo_closed /\ geometry_finalized

\* C3: an update_field issued before any step was begun, before geometry was
\* finalized in the current step, or while geometry is open, fails and
\* stores no field data.
C3_UpdateFieldLegality ==
    [][(last'.op = "update_field" /\ ~FieldLegal)
        => (~last'.ok /\ fields' = fields /\ field_blocks' = field_blocks)]_vars

\* C4 as stated: leaving the step succeeds only if an update_geometry and a
\* finalize_geometry occurred within the step and no geometry is left
\* unfinalized; otherwise it fails and step_finalized stays false.
C4_FinalizeStepNeedsUpdatePair ==
    (last.op = "step_exit" /\ ~(geo_updated /\ geo_closed /\ geometry_finalized))
        => (~last.ok /\ ~step_finalized)

\* C4, amended: leaving the step succeeds only if geometry was finalized
\* within the step (with or without an update_geometry) and no geometry is
\* left unfinalized; otherwise it fails and step_finalized stays false.
C4_FinalizeStepNeedsFinalizedGeometry ==
    (last.op = "step_exit" /\ ~(geo_closed /\ geometry_finalized))
        => (~last.ok /\ ~step_finalized)

C4_Witness ==
    /\ last.op = "step_exit" /\ last.ok /\ step_finalized
    /\ geo_closed /\ ~geo_updated

\* C5: the k-th first-discovered catalogue node holds global patch ID k
\* (k from 0), so the IDs are exactly 0..n-1 and never change.
C5_GlobalIdsInDiscoveryOrder ==
    \A k \in 1..Len(discovered) :
        /\ node_patchid[discovered[k]] = k - 1
        /\ patch_keys[discovered[k]] = k - 1

\* C6: every legal update_geometry returns the global patch ID the geometry
\* manager holds for the patch, for every writer class.
C6_UpdateGeometryReturnsId ==
    (last.op = "update_geometry" /\ last.ok)
        => (last.ret # NoneVal /\ last.ret = patch_keys[last.patch])

\* C7: a geometry request for a node already emitted at timestep t, made at
\* a timestep t' <= t, sends nothing to the writer and leaves the node's
\* global patch ID and last-emitted timestep unchanged.
C7_SkipInvariant ==
    [][\A n \in Nodes :
        (/\ rpc.op = "geom"
         /\ nodeof[<<rpc.basis, rpc.pid>>] = n
         /\ emitted[n] >= 0
         /\ rpc.lid <= emitted[n])
        => (/\ sent' = sent
            /\ rlast'.kind = "skip"
            /\ node_patchid'[n] = node_patchid[n]
            /\ node_last_written'[n] = node_last_written[n]
            /\ emitted' = emitted
            /\ <<patch_keys, topologies, geometry_blocks>>'
                 = <<patch_keys, topologies, geometry_blocks>>)]_vars

C7_Witness ==
    rlast.kind = "skip" /\ rlast.lid < emitted[rlast.node]

\* C8: every field update sent to the writer is tagged with the global patch
\* ID established for the patch's catalogue node.
C8_FieldTaggedWithGlobalId ==
    \A i \in 1..Len(sent) :
        sent[i].op = "update_field" => sent[i].tag = patch_keys[sent[i].node]

RECURSIVE CellCount(_)
CellCount(shape) ==
    IF shape = << >> THEN 1 ELSE (Head(shape) - 1) * CellCount(Tail(shape))

\* C9: for sample counts (n0,...,nd-1), d in 1..3, every ni >= 2, there are
\* exactly prod(ni - 1) elements, each with 2^d node indices.
C9_ElementCountLaw ==
    tpc \in {"elements", "sent"} =>
        /\ Len(teidxs) = CellCount(tshape)
        /\ \A e \in 1..Len(teidxs) : Len(teidxs[e]) = 2 ^ Len(tshape)
        /\ tpc = "sent" => Len(tflat) = CellCount(tshape) * 2 ^ Len(tshape)

C9_Witness ==
    tpc = "sent" /\ tshape = <<3, 2, 4>> /\ Len(teidxs) = 6 /\ Len(tflat) = 48

\* C10 as stated: a 2x2 patch gives 4 nodes numbered 0=(0,0), 1=(1,0),
\* 2=(0,1), 3=(1,1) and one quad with connectivity [0,1,3,2].
C10_SingleQuadAsStated ==
    (tshape = <<2, 2>> /\ tpc = "elements") =>
        /\ tnodes = << <<0, 0>>, <<1, 0>>, <<0, 1>>, <<1, 1>> >>
        /\ teidxs = << <<0, 1, 3, 2>> >>

\* C10, amended: a 2x2 patch gives 4 nodes numbered row-major, 0=(0,0),
\* 1=(0,1), 2=(1,0), 3=(1,1), and one quad (0,0),(1,0),(1,1),(0,1) whose
\* connectivity is [0,2,3,1].
C10_SingleQuad ==
    (tshape = <<2, 2>> /\ tpc = "elements") =>
        /\ tnodes = << <<0, 0>>, <<0, 1>>, <<1, 0>>, <<1, 1>> >>
        /\ teidxs = << <<0, 2, 3, 1>> >>
        /\ \A c \in 1..4 :
             tnodes[teidxs[1][c] + 1]
               = << <<0, 0>>, <<1, 0>>, <<1, 1>>, <<0, 1>> >>[c]

C10_Witness ==
    tshape = <<2, 2>> /\ tpc = "elements" /\ Len(teidxs) = 1 /\ Len(tnodes) = 4

\* C11: every update of a cell-valued field, the full one and each
\* per-component one, carries prod(ni - 1) rows for the sample counts
\* (n0,...,nd-1) of the node's schedule, never prod(ni) rows.
C11_CellFieldRows ==
    \A i \in 1..Len(sent) :
        (/\ sent[i].op = "update_field"
         /\ \E f \in ReaderFields : f.name = sent[i].name /\ f.kind = CELLVALUES)
        => LET shape == Lengths(node_tesselation[sent[i].node])
           IN  /\ sent[i].rows = CellCount(shape)
               /\ sent[i].rows # Prod(shape)

C11_Witness ==
    \E i \in 1..Len(sent) :
        /\ sent[i].op = "update_field" /\ sent[i].name = "v"
        /\ sent[i].comp = 2 /\ sent[i].node = 1 /\ sent[i].rows = 2

\* C12: the planar periodic mesh is made of (n0-1)*(n1-1) interior quads,
\* then a seam block of n0-1 quads, then two pole caps of n1 quads each;
\* 16 elements for shape (3,4).
C12_PlanarBlockCounts ==
    (volumetric = "planar" /\ Len(pblocks) = 4) =>
        /\ pblocks = <<(nlat - 1) * (nlon - 1), nlat - 1, nlon, nlon>>
        /\ Len(pcells) = (nlat - 1) * (nlon - 1) + (nlat - 1) + 2 * nlon
        /\ (nlat = 3 /\ nlon = 4) => Len(pcells) = 16

C12_Witness ==
    /\ volumetric = "planar" /\ nlat = 3 /\ nlon = 4
    /\ pblocks = <<6, 2, 4, 4>> /\ Len(pcells) = 16

\* the number of layers of the arrays of the configured mesh
ArrayLayers == IF volumetric = "planar" THEN 1 ELSE nvert

\* C13: every geometry and field array of a periodic mesh has n0*n1 + 2
\* rows per layer (1 layer when planar, nv layers when volumetric), each
\* layer being its n0*n1 regular values in row-major order followed by its
\* south pole value and then its north pole value.
C13_PoleRows ==
    pdata # << >> =>
        /\ Len(pdata) = ArrayLayers * nlat * nlon + 2 * ArrayLayers
        /\ \A L \in 0..(ArrayLayers - 1) :
             LET base == L * (nlat * nlon + 2)
             IN  /\ \A r \in 1..(nlat * nlon) :
                      /\ pdata[base + r].k = "reg"
                      /\ pdata[base + r].xk = "reg"
                      /\ pdata[base + r].i = (r - 1) \div nlon
                      /\ pdata[base + r].j = (r - 1) % nlon
                      /\ pdata[base + r].v = pdata[base + 1].v
                 /\ pdata[base + nlat * nlon + 1].k = "south"
                 /\ pdata[base + nlat * nlon + 1].xk = "south"
                 /\ pdata[base + nlat * nlon + 1].v = pdata[base + 1].v
                 /\ pdata[base + nlat * nlon + 2].k = "north"
                 /\ pdata[base + nlat * nlon + 2].xk = "north"
                 /\ pdata[base + nlat * nlon + 2].v = pdata[base + 1].v
                 /\ (volumetric = "volumetric") => pdata[base + 1].v = L

C13_Witness ==
    /\ ppc = "velocity" /\ volumetric = "volumetric"
    /\ nvert = 2 /\ nlat = 3 /\ nlon = 4 /\ Len(pdata) = 28
    /\ pdata[13].k = "south" /\ pdata[28].k = "north" /\ pdata[28].v = 1

\* the permutation perm_inv inverts: the direction of the discovered patch
\* that direction i of the node maps to
PermOf(perm_inv, i) == CHOOSE q \in DOMAIN perm_inv : perm_inv[q] = i

\* the sample grid of a schedule
PointSet(tess) ==
    {pt \in [1..Len(tess) -> 0..(2 * Len(tess))] :
        \A q \in 1..Len(tess) : pt[q] \in SeqToSet(tess[q])}

\* the position of node n in the order of first discovery, from 0
Rank(n) == (CHOOSE k \in 1..Len(discovered) : discovered[k] = n) - 1

Completed ==
    closed - (IF last.op = "step_exit" /\ ~last.ok /\ step_finalized
              THEN 1 ELSE 0)

\* C15: the VTK writer has written one file per completed step; with
\* multiple timesteps the file of the step with stepid k is named by k + 1,
\* so all names differ, without them every file is the configured path; a
\* file is written only after the geometry of its step was finalized.
C15_OneFilePerStep ==
    wclass = "VTKWriter" =>
        /\ Len(files) = Completed
        /\ \A k \in 1..Len(files) :
             files[k] = IF multiple_timesteps THEN (k - 1) + 1 ELSE 0
        /\ (last.op = "step_exit" /\ last.ok)
             => (geo_closed /\ geometry_finalized /\ Len(files) = stepid + 1)

C15_Witness ==
    /\ wclass = "VTKWriter" /\ multiple_timesteps
    /\ last.op = "step_exit" /\ last.ok /\ files = <<1, 2>>

C17_MissingGeometryReported ==
    bl_result.kind # "none" =>
        IF \E l \in SeqToSet(bl_updates) : l <= bl_level
        THEN /\ bl_result.kind \in {"npatches", "patch"}
             /\ bl_result.level \in SeqToSet(bl_updates)
             /\ bl_result.level <= bl_level
             /\ \A l \in SeqToSet(bl_updates) :
                  l <= bl_level => l <= bl_result.level
        ELSE /\ bl_result.kind = "error"
             /\ bl_result.class = "ValueError"
             /\ bl_result.timestep = bl_level
             /\ bl_result.basis = bl_basis

\* C18: in every level the step is begun exactly once, every geometry
\* update of the level comes after that begin, and no field update of the
\* level comes before a geometry update of the level.
C18_GeometryAfterSingleBegin ==
    /\ \A i, j \in 1..Len(wr_log) :
         (/\ wr_log[i].op = "add_time" /\ wr_log[j].op = "add_time"
          /\ wr_log[i].lid = wr_log[j].lid) => i = j
    /\ \A i \in 1..Len(wr_log) :
         wr_log[i].op = "update_geometry" =>
            /\ \E j \in 1..(i - 1) :
                 wr_log[j].op = "add_time" /\ wr_log[j].lid = wr_log[i].lid
            /\ \A j \in 1..(i - 1) :
                 ~(wr_log[j].op = "update_field" /\ wr_log[j].lid = wr_log[i].lid)
    /\ wr_stage = "done" =>
         \A l \in 0..(Len(wr_file) - 1) :
            \E i \in 1..Len(wr_log) :
                wr_log[i].op = "add_time" /\ wr_log[i].lid = l

\* C19: the schedule of a catalogue node is assigned once, at the node's
\* first emission, and never again.
C19_TesselationAssignedOnce ==
    \A n \in Nodes :
        /\ tess_assigned[n] <= 1
        /\ tess_assigned[n] > 0 => node_tesselation[n] = KnotsOf(n)

\* the corners of a cell that are not the given pole
OffPole(cell, pole) == {c \in 1..Len(cell) : cell[c] # pole}

\* cell has two corners on the pole and its two others are a and b
IsCap(cell, pole, a, b) ==
    /\ Cardinality(OffPole(cell, pole)) = 2
    /\ \E c1, c2 \in OffPole(cell, pole) :
         c1 # c2 /\ cell[c1] = a /\ cell[c2] = b

\* C20: quad j of the south cap joins columns j and (j+1) mod n1 of row 0
\* to the south pole n0*n1, quad j of the north cap joins them on row
\* n0-1 to the north pole n0*n1 + 1; no interior or seam element holds a
\* pole index and every index lies in [0, n0*n1 + 2).
C20_PoleCaps ==
    (volumetric = "planar" /\ Len(pblocks) = 4) =>
        LET off == pblocks[1] + pblocks[2]
            last_row == (nlat - 1) * nlon
        IN  /\ \A j \in 0..(nlon - 1) :
                 /\ IsCap(pcells[off + j + 1], Nplanar, j, (j + 1) % nlon)
                 /\ IsCap(pcells[off + nlon + j + 1], Nplanar + 1,
                          last_row + j, last_row + ((j + 1) % nlon))
            /\ \A e \in 1..off : \A c \in 1..4 : pcells[e][c] < Nplanar
            /\ \A e \in 1..Len(pcells) : \A c \in 1..4 :
                 pcells[e][c] >= 0 /\ pcells[e][c] < Nplanar + 2

C20_Witness ==
    /\ volumetric = "planar" /\ nlat = 3 /\ nlon = 4 /\ Len(pblocks) = 4
    /\ pcells[9] = <<0, 12, 12, 1>>
    /\ pcells[16] = <<13, 11, 8, 13>>

\* the index of regular node (v, i, j) in the layered node array with poles
LayerIndex(v, i, j) == v * Nplanar + i * nlon + j + 2 * v

\* the index of pole k (0 south, 1 north) of layer v
PoleIndex(v, k) == v * (Nplanar + 2) + Nplanar + k

\* the set of nodes a cell references
CornerSet(cell) == {cell[c] : c \in 1..Len(cell)}

\* the nodes of the horizontal set H of positions, on layers v and v + 1
OnLayers(v, H) ==
    {LayerIndex(w, h[1], h[2]) : w \in {v, v + 1}, h \in H}

BothPoles(v, k) == {PoleIndex(v, k), PoleIndex(v + 1, k)}

\* C21: in the 3D periodic mesh every element references regular node
\* (v, i, j) as v*n0*n1 + i*n1 + j + 2*v and the poles of layer v as
\* v*(n0*n1 + 2) + n0*n1 + {0, 1}: the interior hexahedron of cell (v, i, j),
\* the seam hexahedron of (v, i), and the south and north cap hexahedra of
\* (v, j) hold exactly those nodes of layers v and v + 1, and every index
\* lies in [0, nv*(n0*n1 + 2)).
C21_LayeredIndices ==
    (volumetric # "planar" /\ Len(pblocks) = 4) =>
        LET interior == ProductSeq(VolumetricShape)
            seam == ProductSeq(<<nvert - 1, nlat - 1>>)
            cap == ProductSeq(<<nvert - 1, nlon>>)
            o1 == pblocks[1]
            o2 == o1 + pblocks[2]
            o3 == o2 + pblocks[3]
        IN  /\ pblocks = <<Len(interior), Len(seam), Len(cap), Len(cap)>>
            /\ \A e \in 1..Len(interior) :
                 LET x == interior[e]
                 IN  CornerSet(pcells[e]) =
                        OnLayers(x[1], {<<x[2] + a, x[3] + b>> :
                                           a \in {0, 1}, b \in {0, 1}})
            /\ \A e \in 1..Len(seam) :
                 LET x == seam[e]
                 IN  CornerSet(pcells[o1 + e]) =
                        OnLayers(x[1], {<<x[2] + a, b>> :
                                           a \in {0, 1}, b \in {0, nlon - 1}})
            /\ \A e \in 1..Len(cap) :
                 LET x == cap[e]
                     cols == {x[2], (x[2] + 1) % nlon}
                 IN  /\ CornerSet(pcells[o2 + e]) =
                          OnLayers(x[1], {<<0, b>> : b \in cols})
                             \cup BothPoles(x[1], 0)
                     /\ CornerSet(pcells[o3 + e]) =
                          OnLayers(x[1], {<<nlat - 1, b>> : b \in cols})
                             \cup BothPoles(x[1], 1)
            /\ \A e \in 1..Len(pcells) : \A c \in 1..Len(pcells[e]) :
                 /\ pcells[e][c] >= 0
                 /\ pcells[e][c] < nvert * (Nplanar + 2)

C21_Witness ==
    /\ volumetric = "volumetric" /\ nvert = 2 /\ nlat = 2 /\ nlon = 2
    /\ pblocks = <<1, 1, 2, 2>>
    /\ CornerSet(pcells[1]) = {0, 1, 2, 3, 6, 7, 8, 9}
    /\ CornerSet(pcells[3]) = {0, 1, 4, 6, 7, 10}
    /\ CornerSet(pcells[6]) = {2, 3, 5, 8, 9, 11}

\* the patches the grid holds before its k-th one
Before(k) == {vtk_grid.order[m] : m \in 1..(k - 1)}

\* the number of rows of the point array before the block of the k-th patch
BlockStart(k) ==
    Cardinality({i \in 1..Len(vtk_grid.points) :
                    vtk_grid.points[i].patch \in Before(k)})

\* the number of cells of the grid before those of the k-th patch
CellsBefore(k) ==
    CumSum([m \in 1..Len(vtk_grid.order) |->
               Len(Elements(PatchShape(vtk_grid.order[m])))], k - 1)

\* corner c of the e-th cell in the flat cell array of a grid of quads
GridCorner(e, c) == vtk_grid.cells[(e - 1) * 5 + 1 + c]

\* C22: the connectivity of a patch with N nodes holds indices in 0..N-1
\* only, and in the grid built from several patches the cells of the k-th
\* patch are those indices shifted by the number of nodes of the patches
\* before it, so each references rows of its own patch's block of the
\* concatenated point array only.
C22_CellsStayInOwnBlock ==
    \A k \in 1..Len(vtk_grid.order) :
        LET p == vtk_grid.order[k]
            local == Elements(PatchShape(p))
        IN  \A e \in 1..Len(local) : \A c \in 1..Len(local[e]) :
              /\ local[e][c] >= 0
              /\ local[e][c] < PatchNumNodes(p)
              /\ GridCorner(CellsBefore(k) + e, c) = local[e][c] + BlockStart(k)
              /\ vtk_grid.points[GridCorner(CellsBefore(k) + e, c) + 1].patch = p
              /\ vtk_grid.points[GridCorner(CellsBefore(k) + e, c) + 1].row
                    = local[e][c]

C22_Witness ==
    /\ vtk_grid.order = <<2, 1>>
    /\ Len(vtk_grid.points) = 10
    /\ Len(vtk_grid.cells) = 15
    /\ SubSeq(vtk_grid.cells, 11, 15) = <<4, 6, 8, 9, 7>>

\* C24: in every step file the VTK writer writes, each point-valued field
\* array has as many rows as the concatenated point array, and its blocks
\* are those of the same patches in the same order as the point blocks,
\* whichever patches had their geometry and fields updated, in any order.
C24_FieldArraysFollowPoints ==
    \A f \in FieldNames :
        vtk_grid.arrays[f] # << >> =>
            /\ Len(vtk_grid.arrays[f]) = Len(vtk_grid.points)
            /\ \A i \in 1..Len(vtk_grid.points) :
                 vtk_grid.arrays[f][i].patch = vtk_grid.points[i].patch

\* the protocol position after one more call; "reject" once a call was out
\* of order
AfterCall(q, op) ==
    CASE q = "closed" /\ op = "add_step" -> "open"
      [] q = "open" /\ op = "update_geometry" -> "geometry"
      [] q = "geometry" /\ op = "finalize_geometry" -> "fields"
      [] q = "fields" /\ op = "update_field" -> "fields"
      [] q = "fields" /\ op = "finalize_step" -> "closed"
      [] OTHER -> "reject"

RECURSIVE AfterCalls(_, _)
\* the protocol position after the first n calls of the log
AfterCalls(log, n) ==
    IF n = 0 THEN "closed" ELSE AfterCall(AfterCalls(log, n - 1), log[n])

\* C23: the calls WRFReader.write issues are, per step, add_step, one
\* update_geometry, finalize_geometry, any number of update_field, then
\* finalize_step; no call is refused by the writer, and when write returns
\* every one of the file's steps has been begun and finalized.
C23_WrfCallSequence ==
    wrf_pc # "idle" =>
        /\ last.ok
        /\ AfterCalls(wrf_log, Len(wrf_log)) # "reject"
        /\ wrf_pc = "done" =>
             /\ AfterCalls(wrf_log, Len(wrf_log)) = "closed"
             /\ Cardinality({i \in 1..Len(wrf_log) : wrf_log[i] = "add_step"})
                  = wrf_nsteps
             /\ begun = wrf_nsteps
             /\ closed = wrf_nsteps

C23_Witness ==
    /\ wrf_pc = "done"
    /\ wrf_nsteps = 2
    /\ wrf_volumetric = "planar"
    /\ Velocity
    /\ "HGT" \in wrf_dataset
    /\ Len(wrf_log) = 18
    /\ SubSeq(wrf_log, 1, 4) =
          <<"add_step", "update_geometry", "finalize_geometry", "update_field">>
    /\ wrf_log[9] = "finalize_step"
    /\ closed = 2

====
